---- MODULE Spec2Model ----
(***************************************************************************)
(* A model of one FTP session of src/ftpserver.py: Server.command_loop,    *)
(* its closures reply / passive_reply / passive_read, and the sockets it   *)
(* opens and closes.  One action is one pass through the body of the       *)
(* `while True` loop for one verb (or the second half of the RNFR handler, *)
(* which blocks on its own read).  Text lines are sequences of one-        *)
(* character strings, so that split(' ', 1), startswith('RNTO') and the    *)
(* verb comparisons are computed as the code computes them.                *)
(*                                                                         *)
(* The Storage Provider is an opaque capability here: the outcome of each  *)
(* provider call (its result, or an exception) is an input of the action,  *)
(* except that both shipped providers raise on a missing or empty path     *)
(* (normalize_path).  Sending a reply on the control connection is taken   *)
(* to succeed.  The working directory is that of FileSystemProvider.       *)
(*                                                                         *)
(* Further specifications over the same variables look into what the       *)
(* session model takes as one step: SpecReader is read_till_crlf byte by   *)
(* byte, SpecServe is the accept loop of serve / _serve with one thread    *)
(* per client and main's exit, SpecStore is a STOR through                 *)
(* read_n_till_close and save_file followed by a RETR, SpecPasv is the     *)
(* port arithmetic of the PASV handler.                                    *)
(***************************************************************************)
EXTENDS Integers, Sequences, FiniteSets, TLC

\* Bound of the model: the number of PASV commands one session issues.
MaxPasv == 2

PasvIds == 1..MaxPasv

\* Python's None, as an argument value (distinct from every text).
None == <<"None">>

----------------------------------------------------------------------------
\* Texts

vCWD  == <<"C","W","D">>
vDELE == <<"D","E","L","E">>
vLIST == <<"L","I","S","T">>
vMKD  == <<"M","K","D">>
vXMKD == <<"X","M","K","D">>
vNOOP == <<"N","O","O","P">>
vnoop == <<"n","o","o","p">>
vOPTS == <<"O","P","T","S">>
vopts == <<"o","p","t","s">>
vPASV == <<"P","A","S","V">>
vPWD  == <<"P","W","D">>
vXPWD == <<"X","P","W","D">>
vQUIT == <<"Q","U","I","T">>
vRMD  == <<"R","M","D">>
vXRMD == <<"X","R","M","D">>
vRNFR == <<"R","N","F","R">>
vRNTO == <<"R","N","T","O">>
vRETR == <<"R","E","T","R">>
vSIZE == <<"S","I","Z","E">>
vSTOR == <<"S","T","O","R">>
vSYST == <<"S","Y","S","T">>
vTYPE == <<"T","Y","P","E">>
vUSER == <<"U","S","E","R">>

\* The verbs of the dispatch chain of command_loop.
KnownVerbs ==
  { vCWD, vDELE, vLIST, vMKD, vXMKD, vNOOP, vnoop, vOPTS, vopts, vPASV, vPWD,
    vXPWD, vQUIT, vRMD, vXRMD, vRNFR, vRETR, vSIZE, vSTOR, vSYST, vTYPE, vUSER }

\* '<verb> <arg>' as the client writes it.
WithArg(verb, arg) == verb \o <<" ">> \o arg

\* The command lines a client sends in this model (content without CRLF).
Lines ==
  { WithArg(vCWD, <<"d">>), WithArg(vCWD, <<"/">>), vCWD,
    WithArg(vDELE, <<"a">>),
    vLIST,
    WithArg(vMKD, <<"d">>), WithArg(vXMKD, <<"d">>),
    vNOOP, vnoop,
    WithArg(vOPTS, <<"u">>), vopts,
    vPASV,
    vPWD, vXPWD, <<"p","w","d">>,
    vQUIT,
    WithArg(vRMD, <<"d">>), WithArg(vXRMD, <<"d">>),
    WithArg(vRNFR, <<"a">>), vRNFR,
    WithArg(vRNTO, <<"b">>), vRNTO, WithArg(vRNTO, <<>>),
    WithArg(vRNTO \o <<"X">>, <<"b">>),
    WithArg(vRETR, <<"a">>), vRETR,
    WithArg(vSIZE, <<"a">>),
    WithArg(vSTOR, <<"a">>),
    vSYST,
    WithArg(vTYPE, <<"I">>), WithArg(vTYPE, <<"X">>), vTYPE,
    WithArg(vUSER, <<"u">>),
    WithArg(<<"P","A","S","S">>, <<"p">>) }

\* ' ' in line
HasSpace(s) == \E i \in 1..Len(s) : s[i] = " "

FirstSpace(s) == CHOOSE i \in 1..Len(s) : s[i] = " " /\ \A j \in 1..(i-1) : s[j] # " "

\* cmd, args = line.split(' ', 1) if ' ' in line else (line, None)
Split(s) ==
  IF HasSpace(s)
  THEN [cmd |-> SubSeq(s, 1, FirstSpace(s) - 1), args |-> SubSeq(s, FirstSpace(s) + 1, Len(s))]
  ELSE [cmd |-> s, args |-> None]

\* The split of each line of the model, computed once
SplitTable == [t \in Lines |-> Split(t)]

Parsed(text) == SplitTable[text]

\* str.startswith
StartsWith(s, p) == Len(s) >= Len(p) /\ SubSeq(s, 1, Len(p)) = p

----------------------------------------------------------------------------
\* What one pass through the loop did, in order

Ev(k, n, x, y, r) == [k |-> k, n |-> n, x |-> x, y |-> y, r |-> r]

\* reply(status, ...): one reply line sent on the control connection
Reply(code) == Ev("reply", code, <<>>, <<>>, "")
\* a call of the provider operation op with its arguments and outcome
Call(op, x, y, r) == Ev(op, 0, x, y, r)
\* an exception reached the except clause of the loop body
Raise == Ev("raise", 0, <<>>, <<>>, "")
\* Server.read_till_crlf called at the given source line; r is what came of it
Read(at, r) == Ev("read", at, <<>>, <<>>, r)
\* the test `if not passive_client` of passive_reply / passive_read saw channel c (0: None)
Passive(c) == Ev("passive", c, <<>>, <<>>, "")
\* passive_client.send(d) on channel c
Send(c, r) == Ev("send", c, <<>>, <<>>, r)
\* passive_client.close() on channel c
Close(c) == Ev("close", c, <<>>, <<>>, "")
\* passive_client = None
Clear == Ev("clear", 0, <<>>, <<>>, "")
\* passive_server.accept() of listener c
Accept(c, r) == Ev("accept", c, <<>>, <<>>, r)
\* passive_server.close() of listener c
CloseListener(c) == Ev("close_listener", c, <<>>, <<>>, "")

RECURSIVE Replies(_)
\* the reply codes among the events, in order
Replies(evs) ==
  IF evs = <<>> THEN <<>>
  ELSE IF Head(evs).k = "reply" THEN <<Head(evs).n>> \o Replies(Tail(evs))
  ELSE Replies(Tail(evs))

Has(evs, k) == \E i \in 1..Len(evs) : evs[i].k = k

----------------------------------------------------------------------------
VARIABLES
  pc,              \* where command_loop is: "greeting", "awaiting" (line 148),
                   \* "rename_target" (line 204), "exited" (returned), "crashed" (exception escaped)
  line,            \* the local `line`
  events,          \* what the last pass through the loop did
  passive_client,  \* the local `passive_client`: 0 for None, else the accepted connection
  data_sock,       \* accepted data connections: "none", "open", "closed"
  closes,          \* how often close() was called on each data connection
  transfers,       \* how many transfers completed with 226 on each data connection
  listener,        \* the PASV sockets `passive_server`: "none", "unbound" (created, bind or
                   \* listen failed), "listening", "closed"
  npasv,           \* PASV commands handled so far
  from_name,       \* the local `from_name`
  client,          \* the control socket on the server side: "open", "closed"
  peer_closed,     \* the peer has closed the control connection
  consumed,        \* a transfer completed with 226 and no PASV has accepted a connection since
  working_dir,     \* FileSystemProvider.working_dir of the session's provider
  reader,          \* one call of Server.read_till_crlf: the stream, buf, is_prv_cr, the result
  crucial_error,   \* Server.crucial_error
  serve_pc,        \* where Server.serve is: "start", "accepting", "stopped"
  serve_failure,   \* the call whose exception reached serve's except clause, or "none"
  client_id,       \* the local `client_id` of _serve
  sessions,        \* the thread of each client: "none", "awaiting", "exited", "crashed", "killed"
  answered,        \* how many command lines each session has read and answered
  process,         \* the process of main(): "running", "exited"
  store,           \* one STOR of a payload followed by one RETR of the same name
  pasv             \* one PASV handler: the listener's port, the 227 reply, the accept

\* The state of one session (command_loop and its provider)
sessionVars == <<pc, line, events, passive_client, data_sock, closes, transfers, listener,
                 npasv, from_name, client, peer_closed, consumed, working_dir>>

\* The state of serve, _serve and main
serveVars == <<crucial_error, serve_pc, serve_failure, client_id, sessions, answered, process>>

\* What the session model does not look into
auxVars == <<reader, serveVars, store, pasv>>

vars == <<sessionVars, auxVars>>

passiveVars == <<passive_client, data_sock, closes, transfers, listener, npasv, consumed>>

\* FileSystemProvider.root_dir, the directory the server was started on
root_dir == <<"/", "r">>

\* The start of a call of read_till_crlf on a stream that delivers `fill` bytes "a",
\* then the bytes of `tail`, and is then closed by the peer. A buffer is kept as the
\* number of its leading "a" bytes and the bytes after them.
ReaderStart(fill, tail) ==
  [in_fill |-> fill, in_tail |-> tail, fill |-> fill, tail |-> tail, got |-> 0,
   buf |-> [fill |-> 0, rest |-> <<>>], is_prv_cr |-> FALSE,
   pc |-> "recv", why |-> "", result |-> [fill |-> 0, rest |-> <<>>]]

\* The client ids _serve hands out
MaxClients == 3

Clients == 1..MaxClients

\* The start of a STOR of `payload` by a client that then closes the data connection
StoreStart(payload) ==
  [payload |-> payload, wire |-> payload, buf |-> <<>>, data |-> <<>>, file |-> <<>>,
   chunks |-> 0, sent |-> <<>>, pc |-> "recv"]

\* The PASV handler after passive_server.listen(1) on a listener with the given port
PasvStart(port) ==
  [port |-> port, hi |-> 0, lo |-> 0, replied |-> FALSE, accept_called |-> FALSE,
   pc |-> "listening"]

\* command_loop and its provider at the start of a session
SessionInit ==
  /\ pc = "greeting"
  /\ line = None
  /\ events = <<>>
  /\ passive_client = 0
  /\ data_sock = [c \in PasvIds |-> "none"]
  /\ closes = [c \in PasvIds |-> 0]
  /\ transfers = [c \in PasvIds |-> 0]
  /\ listener = [c \in PasvIds |-> "none"]
  /\ npasv = 0
  /\ from_name = None
  /\ client = "open"
  /\ peer_closed = FALSE
  /\ consumed = FALSE
  /\ working_dir = root_dir

\* Server.__init__ and the start of main(): nothing is listening yet
ServeInit ==
  /\ crucial_error = FALSE
  /\ serve_pc = "start"
  /\ serve_failure = "none"
  /\ client_id = 0
  /\ sessions = [i \in Clients |-> "none"]
  /\ answered = [i \in Clients |-> 0]
  /\ process = "running"

Init ==
  /\ SessionInit
  /\ ServeInit
  /\ reader = ReaderStart(0, <<>>)
  /\ store = StoreStart(<<>>)
  /\ pasv = PasvStart(0)

----------------------------------------------------------------------------
\* Server.read_till_crlf on what the peer does next: a whole non-empty line, CRLF
\* alone ("blank"), a clean close before any byte ("eof"), a close in the middle of a
\* line ("truncated"), a line longer than the ceiling ("oversize"), a line with a
\* non-ASCII byte ("undecodable").
InputKinds == {"line", "blank", "eof", "truncated", "oversize", "undecodable"}

read_till_crlf(kind, text) ==
  CASE kind = "line" -> [raised |-> FALSE, line |-> text]
    [] kind \in {"blank", "eof"} -> [raised |-> FALSE, line |-> <<>>]
    [] OTHER -> [raised |-> TRUE, line |-> <<>>]

\* the inputs the peer can still produce
CanSend(kind) == peer_closed => kind = "eof"

\* Outcomes of a provider call on a path argument: both providers' normalize_path
\* raises on None and on '', and any backend call can fail.
ProviderOutcomes(args, results) ==
  IF args = None \/ args = <<>> THEN {"raise"} ELSE results \cup {"raise"}

\* except: print(traceback); reply(500, 'Error executing cmd')
Except_NoReply(evs) == evs \o <<Raise>>

Except(evs) == evs \o <<Raise, Reply(500)>>

\* One pass through the loop body for the line `text`: the handler did `evs` and
\* raised or not; the loop then goes back to line 148.
Loop(text, evs, raised) ==
  /\ ~peer_closed
  /\ line' = text
  /\ events' = <<Read(148, "line")>> \o (IF raised THEN Except(evs) ELSE evs)
  /\ pc' = "awaiting"
  /\ UNCHANGED <<client, peer_closed, auxVars>>

----------------------------------------------------------------------------
\* reply(220, 'Hello, ...')
Greeting ==
  /\ pc = "greeting"
  /\ events' = <<Reply(220)>>
  /\ pc' = "awaiting"
  /\ UNCHANGED <<line, passiveVars, from_name, client, peer_closed, working_dir, auxVars>>

\* line 148 raises: the exception leaves command_loop, the clean-up does not run
ReadFails ==
  /\ pc = "awaiting"
  /\ \E kind \in {"truncated", "oversize", "undecodable"} :
       /\ CanSend(kind)
       /\ read_till_crlf(kind, <<>>).raised
       /\ events' = <<Read(148, kind)>>
       /\ peer_closed' = (kind = "truncated")
  /\ pc' = "crashed"
  /\ UNCHANGED <<line, passiveVars, from_name, client, working_dir, auxVars>>

\* `if not line: break`, then the clean-up after the loop
ReadEmpty ==
  /\ pc = "awaiting"
  /\ \E kind \in {"blank", "eof"} :
       /\ CanSend(kind)
       /\ read_till_crlf(kind, <<>>).line = <<>>
       /\ line' = read_till_crlf(kind, <<>>).line
       /\ events' = <<Read(148, kind)>> \o
                      (IF passive_client # 0 THEN <<Close(passive_client)>> ELSE <<>>)
       /\ peer_closed' = (peer_closed \/ kind = "eof")
  /\ data_sock' = IF passive_client # 0
                  THEN [data_sock EXCEPT ![passive_client] = "closed"] ELSE data_sock
  /\ closes' = IF passive_client # 0
               THEN [closes EXCEPT ![passive_client] = @ + 1] ELSE closes
  /\ client' = IF line' # <<>> THEN "closed" ELSE client
  /\ pc' = "exited"
  /\ UNCHANGED <<passive_client, transfers, listener, npasv, from_name, consumed,
                 working_dir, auxVars>>

----------------------------------------------------------------------------
\* The handlers that use neither the passive channel nor a second read

\* CWD: provider.change_work_dir(args) -> 250 / 550
\* The longest working directory string the model follows
MaxDirLen == 5

\* str.replace('//', '/'): the occurrences are replaced from the left, without overlap
RECURSIVE ReplaceSlashes(_)
ReplaceSlashes(s) ==
  IF Len(s) = 0 THEN <<>>
  ELSE IF Len(s) >= 2 /\ s[1] = "/" /\ s[2] = "/"
  THEN <<"/">> \o ReplaceSlashes(SubSeq(s, 3, Len(s)))
  ELSE <<s[1]>> \o ReplaceSlashes(Tail(s))

\* FileSystemProvider.normalize_path for a non-empty path, in working directory wd
normalize_path(wd, path) ==
  LET abs == IF path[1] = "/" THEN path ELSE wd \o <<"/">> \o path
  IN ReplaceSlashes(ReplaceSlashes(root_dir \o <<"/">> \o abs))

\* FileSystemProvider.change_work_dir when os.path.isdir(new_dir) holds: the new
\* working_dir, '/' + new_dir[len(self.root_dir):]
change_work_dir(wd, new_dir) ==
  LET n == normalize_path(wd, new_dir)
  IN <<"/">> \o SubSeq(n, Len(root_dir) + 1, Len(n))

\* get_work_dir answering the root directory whatever the working directory is
get_work_dir_root(wd) == root_dir

\* FileSystemProvider.get_work_dir: return self.working_dir
get_work_dir(wd) == wd

\* The outcomes of provider.change_work_dir(args): os.path.isdir is the file system's answer
ChangeDirOutcomes(args) ==
  {r \in ProviderOutcomes(args, {"true", "false"}) :
     r = "true" => Len(change_work_dir(working_dir, args)) <= MaxDirLen}

CWD ==
  /\ pc = "awaiting"
  /\ \E text \in Lines : \E r \in ChangeDirOutcomes(Parsed(text).args) :
       /\ Parsed(text).cmd = vCWD
       /\ Loop(text,
               <<Call("change_work_dir", Parsed(text).args, <<>>, r)>> \o
                 (CASE r = "true" -> <<Reply(250)>> [] r = "false" -> <<Reply(550)>> [] OTHER -> <<>>),
               r = "raise")
       /\ working_dir' = IF r = "true" THEN change_work_dir(working_dir, Parsed(text).args)
                                       ELSE working_dir
  /\ UNCHANGED <<passiveVars, from_name>>

\* A handler that makes one provider call and then one reply
OneCall(verbs, op, code) ==
  /\ pc = "awaiting"
  /\ \E text \in Lines : \E r \in ProviderOutcomes(Parsed(text).args, {"ok"}) :
       /\ Parsed(text).cmd \in verbs
       /\ Loop(text,
               <<Call(op, Parsed(text).args, <<>>, r)>> \o (IF r = "ok" THEN <<Reply(code)>> ELSE <<>>),
               r = "raise")
  /\ UNCHANGED <<passiveVars, from_name, working_dir>>

\* DELE: provider.del_file(args); 257
DELE == OneCall({vDELE}, "del_file", 257)

\* MKD, XMKD: provider.mkdir(args); 257
MKD == OneCall({vMKD, vXMKD}, "mkdir", 257)

\* RMD, XRMD: provider.rmdir(args); 250
RMD == OneCall({vRMD, vXRMD}, "rmdir", 250)

\* A handler that only replies
OnlyReply(verbs, code) ==
  /\ pc = "awaiting"
  /\ \E text \in Lines :
       /\ Parsed(text).cmd \in verbs
       /\ Loop(text, <<Reply(code)>>, FALSE)
  /\ UNCHANGED <<passiveVars, from_name, working_dir>>

\* NOOP, noop: 200
NOOP == OnlyReply({vNOOP, vnoop}, 200)

\* OPTS, opts: 501
OPTS == OnlyReply({vOPTS, vopts}, 501)

\* QUIT: reply(221, 'OK Bye'); the loop goes on
QUIT == OnlyReply({vQUIT}, 221)

\* SYST: 213
SYST == OnlyReply({vSYST}, 213)

\* USER: 230
USER == OnlyReply({vUSER}, 230)

\* the else branch replying 500 instead of 501
Unknown_Reply500 ==
  /\ pc = "awaiting"
  /\ \E text \in Lines :
       /\ Parsed(text).cmd \notin KnownVerbs
       /\ Loop(text, <<Reply(500)>>, FALSE)
  /\ UNCHANGED <<passiveVars, from_name, working_dir>>

\* any other verb: reply(501, 'Unknown cmd')
Unknown ==
  /\ pc = "awaiting"
  /\ \E text \in Lines :
       /\ Parsed(text).cmd \notin KnownVerbs
       /\ Loop(text, <<Reply(501)>>, FALSE)
  /\ UNCHANGED <<passiveVars, from_name, working_dir>>

\* PWD, XPWD: reply(257, provider.get_work_dir())
PWD ==
  /\ pc = "awaiting"
  /\ \E text \in Lines :
       /\ Parsed(text).cmd \in {vPWD, vXPWD}
       /\ Loop(text, <<Call("get_work_dir", <<>>, get_work_dir(working_dir), "ok"), Reply(257)>>, FALSE)
  /\ UNCHANGED <<passiveVars, from_name, working_dir>>

\* SIZE: provider.get_size(args) -> 213 / 550
SIZE ==
  /\ pc = "awaiting"
  /\ \E text \in Lines : \E r \in ProviderOutcomes(Parsed(text).args, {"file", "notfile"}) :
       /\ Parsed(text).cmd = vSIZE
       /\ Loop(text,
               <<Call("get_size", Parsed(text).args, <<>>, r)>> \o
                 (CASE r = "file" -> <<Reply(213)>> [] r = "notfile" -> <<Reply(550)>> [] OTHER -> <<>>),
               r = "raise")
  /\ UNCHANGED <<passiveVars, from_name, working_dir>>

\* TYPE: `args and args in ('I', 'A')` -> 200, else 501
TYPE ==
  /\ pc = "awaiting"
  /\ \E text \in Lines :
       /\ Parsed(text).cmd = vTYPE
       /\ Loop(text,
               IF Parsed(text).args \in {<<"I">>, <<"A">>} THEN <<Reply(200)>> ELSE <<Reply(501)>>,
               FALSE)
  /\ UNCHANGED <<passiveVars, from_name, working_dir>>

----------------------------------------------------------------------------
\* The passive data channel

\* What a handler did to the passive channel: the events, whether it raised, the new
\* value of passive_client, the connection it closed (0: none) and whether a
\* transfer completed.
NoTransfer(pcl, evs, raised) ==
  [ev |-> evs, raised |-> raised, pcl |-> pcl, closed |-> 0, done |-> FALSE]

\* passive_reply left without `passive_client = None`
passive_reply_keeps_channel(pcl, before, op, arg, o, after) ==
  IF pcl = 0 THEN NoTransfer(pcl, <<Passive(pcl), Reply(425)>>, FALSE)
  ELSE IF o = "data_raise"
  THEN NoTransfer(pcl, <<Passive(pcl), Reply(before), Call(op, arg, <<>>, "raise")>>, TRUE)
  ELSE IF o = "io_raise"
  THEN NoTransfer(pcl, <<Passive(pcl), Reply(before), Call(op, arg, <<>>, "ok"),
                         Send(pcl, "raise")>>, TRUE)
  ELSE [ev |-> <<Passive(pcl), Reply(before), Call(op, arg, <<>>, "ok"), Send(pcl, "ok"),
                 Close(pcl), Reply(after)>>,
        raised |-> FALSE, pcl |-> pcl, closed |-> pcl, done |-> TRUE]

\* passive_reply with reply(*after_reply) moved before the close
passive_reply_226_before_close(pcl, before, op, arg, o, after) ==
  IF pcl = 0 THEN NoTransfer(pcl, <<Passive(pcl), Reply(425)>>, FALSE)
  ELSE IF o = "data_raise"
  THEN NoTransfer(pcl, <<Passive(pcl), Reply(before), Call(op, arg, <<>>, "raise")>>, TRUE)
  ELSE IF o = "io_raise"
  THEN NoTransfer(pcl, <<Passive(pcl), Reply(before), Call(op, arg, <<>>, "ok"),
                         Send(pcl, "raise")>>, TRUE)
  ELSE [ev |-> <<Passive(pcl), Reply(before), Call(op, arg, <<>>, "ok"), Send(pcl, "ok"),
                 Reply(after), Close(pcl), Clear>>,
        raised |-> FALSE, pcl |-> 0, closed |-> pcl, done |-> TRUE]

\* passive_reply(before_reply, data, after_reply), with data = provider.<op>(arg);
\* o: the provider call raises ("data_raise"), the send raises ("io_raise"), or neither
passive_reply(pcl, before, op, arg, o, after) ==
  IF pcl = 0 THEN NoTransfer(pcl, <<Passive(pcl), Reply(425)>>, FALSE)
  ELSE IF o = "data_raise"
  THEN NoTransfer(pcl, <<Passive(pcl), Reply(before), Call(op, arg, <<>>, "raise")>>, TRUE)
  ELSE IF o = "io_raise"
  THEN NoTransfer(pcl, <<Passive(pcl), Reply(before), Call(op, arg, <<>>, "ok"),
                         Send(pcl, "raise")>>, TRUE)
  ELSE [ev |-> <<Passive(pcl), Reply(before), Call(op, arg, <<>>, "ok"), Send(pcl, "ok"),
                 Close(pcl), Clear, Reply(after)>>,
        raised |-> FALSE, pcl |-> 0, closed |-> pcl, done |-> TRUE]

\* passive_read with the test of passive_client after the reply and the handler
passive_read_late_check(pcl, before, op, arg, o, after) ==
  IF pcl = 0 \/ o # "ok"
  THEN NoTransfer(pcl, <<Passive(pcl), Reply(before), Call(op, arg, <<>>, "raise")>>, TRUE)
  ELSE [ev |-> <<Passive(pcl), Reply(before), Call(op, arg, <<>>, "ok"),
                 Close(pcl), Clear, Reply(after)>>,
        raised |-> FALSE, pcl |-> 0, closed |-> pcl, done |-> TRUE]

\* passive_read(before_read, handle, after_read), with handle = provider.<op>(arg, get_chunk);
\* o: the handler (the provider, or its reads of the data connection) raises, or not
passive_read(pcl, before, op, arg, o, after) ==
  IF pcl = 0 THEN NoTransfer(pcl, <<Passive(pcl), Reply(425)>>, FALSE)
  ELSE IF o # "ok"
  THEN NoTransfer(pcl, <<Passive(pcl), Reply(before), Call(op, arg, <<>>, "raise")>>, TRUE)
  ELSE [ev |-> <<Passive(pcl), Reply(before), Call(op, arg, <<>>, "ok"),
                 Close(pcl), Clear, Reply(after)>>,
        raised |-> FALSE, pcl |-> 0, closed |-> pcl, done |-> TRUE]

\* The outcomes of a transfer, given those of its provider call: the call raises
\* ("data_raise"), or it returns and the data socket raises ("io_raise") or not ("ok");
\* without a channel nothing is called
TransferOutcomes(pcl, callOutcomes) ==
  IF pcl = 0 THEN {"ok"}
  ELSE {"data_raise"} \cup (IF "ok" \in callOutcomes THEN {"ok", "io_raise"} ELSE {})

\* The effect of a handler's use of the passive channel on the session
Transfer(res) ==
  /\ passive_client' = res.pcl
  /\ data_sock' = IF res.closed # 0 THEN [data_sock EXCEPT ![res.closed] = "closed"] ELSE data_sock
  /\ closes' = IF res.closed # 0 THEN [closes EXCEPT ![res.closed] = @ + 1] ELSE closes
  /\ transfers' = IF res.done THEN [transfers EXCEPT ![res.closed] = @ + 1] ELSE transfers
  /\ consumed' = (consumed \/ res.done)
  /\ UNCHANGED <<listener, npasv>>

\* LIST: passive_reply((150, ...), provider.listdir, (226, ...))
LIST ==
  /\ pc = "awaiting"
  /\ \E text \in Lines : \E o \in TransferOutcomes(passive_client, {"ok", "raise"}) :
       /\ Parsed(text).cmd = vLIST
       /\ LET res == passive_reply(passive_client, 150, "listdir", <<>>, o, 226)
          IN /\ Loop(text, res.ev, res.raised)
             /\ Transfer(res)
  /\ UNCHANGED <<from_name, working_dir>>

\* RETR with the passive-channel check placed before the size check
RETR_ChannelFirst ==
  /\ pc = "awaiting"
  /\ \E text \in Lines : \E r \in ProviderOutcomes(Parsed(text).args, {"file", "notfile"}) :
     \E o \in TransferOutcomes(passive_client, ProviderOutcomes(Parsed(text).args, {"ok"})) :
       /\ Parsed(text).cmd = vRETR
       /\ r # "file" => o = "ok"
       /\ LET size == <<Call("get_size", Parsed(text).args, <<>>, r)>>
              xfer == passive_reply(passive_client, 150, "get_file", Parsed(text).args, o, 226)
              res == CASE passive_client = 0 -> xfer
                       [] r = "raise" -> NoTransfer(passive_client, size, TRUE)
                       [] r = "notfile" -> NoTransfer(passive_client, size \o <<Reply(550)>>, FALSE)
                       [] OTHER -> [xfer EXCEPT !.ev = size \o @]
          IN /\ Loop(text, res.ev, res.raised)
             /\ Transfer(res)
  /\ UNCHANGED <<from_name, working_dir>>

\* RETR: provider.get_size(args)[0] false -> 550, else
\* passive_reply((150, ...), lambda: provider.get_file(args), (226, ...))
RETR ==
  /\ pc = "awaiting"
  /\ \E text \in Lines : \E r \in ProviderOutcomes(Parsed(text).args, {"file", "notfile"}) :
     \E o \in TransferOutcomes(passive_client, ProviderOutcomes(Parsed(text).args, {"ok"})) :
       /\ Parsed(text).cmd = vRETR
       /\ r # "file" => o = "ok"
       /\ LET size == <<Call("get_size", Parsed(text).args, <<>>, r)>>
              xfer == passive_reply(passive_client, 150, "get_file", Parsed(text).args, o, 226)
              res == CASE r = "raise" -> NoTransfer(passive_client, size, TRUE)
                       [] r = "notfile" -> NoTransfer(passive_client, size \o <<Reply(550)>>, FALSE)
                       [] OTHER -> [xfer EXCEPT !.ev = size \o @]
          IN /\ Loop(text, res.ev, res.raised)
             /\ Transfer(res)
  /\ UNCHANGED <<from_name, working_dir>>

\* STOR: passive_read((150, ...), lambda get_chunk: provider.save_file(file_name, get_chunk), (226, ...))
STOR ==
  /\ pc = "awaiting"
  /\ \E text \in Lines :
     \E o \in TransferOutcomes(passive_client, ProviderOutcomes(Parsed(text).args, {"ok"})) \ {"io_raise"} :
       /\ Parsed(text).cmd = vSTOR
       /\ LET res == passive_read(passive_client, 150, "save_file", Parsed(text).args, o, 226)
          IN /\ Loop(text, res.ev, res.raised)
             /\ Transfer(res)
  /\ UNCHANGED <<from_name, working_dir>>

\* PASV: open a listener, reply 227, accept one connection within 1 s, close the listener.
\* o: bind/listen raises, accept raises (timeout), getpeername of the print raises, or none
PASV ==
  /\ pc = "awaiting"
  /\ npasv < MaxPasv
  /\ \E text \in Lines : \E o \in {"listen_raise", "accept_raise", "peername_raise", "ok"} :
       /\ Parsed(text).cmd = vPASV
       /\ LET id == npasv + 1
              accepted == o \in {"peername_raise", "ok"}
          IN /\ Loop(text,
                     CASE o = "listen_raise" -> <<>>
                       [] o = "accept_raise" -> <<Reply(227), Accept(id, "raise")>>
                       [] OTHER -> <<Reply(227), Accept(id, "ok"), CloseListener(id)>>,
                     o # "ok")
             /\ npasv' = id
             /\ listener' = [listener EXCEPT ![id] =
                              CASE accepted -> "closed"
                                [] o = "accept_raise" -> "listening"
                                [] OTHER -> "unbound"]
             /\ data_sock' = IF accepted THEN [data_sock EXCEPT ![id] = "open"] ELSE data_sock
             /\ passive_client' = IF accepted THEN id ELSE passive_client
             /\ consumed' = (consumed /\ ~accepted)
  /\ UNCHANGED <<closes, transfers, from_name, working_dir>>

----------------------------------------------------------------------------
\* The two-step rename

\* RNFR, up to the read of line 204: from_name = args; reply(350, ...)
RNFR ==
  /\ pc = "awaiting"
  /\ ~peer_closed
  /\ \E text \in Lines :
       /\ Parsed(text).cmd = vRNFR
       /\ line' = text
       /\ from_name' = Parsed(text).args
       /\ events' = <<Read(148, "line"), Reply(350)>>
  /\ pc' = "rename_target"
  /\ UNCHANGED <<passiveVars, client, peer_closed, working_dir, auxVars>>

\* Lines 204-211 on the result rd of the read: the checks of the line, the split,
\* provider.rename_file(from_name, to_name) with outcome r, reply(250, ...)
rename_step(rd, src, r) ==
  IF rd.raised THEN [ev |-> <<>>, raised |-> TRUE]
  ELSE IF rd.line = <<>> \/ ~StartsWith(rd.line, vRNTO) THEN [ev |-> <<>>, raised |-> TRUE]
  ELSE IF ~HasSpace(rd.line) THEN [ev |-> <<>>, raised |-> TRUE]
  ELSE [ev |-> <<Call("rename_file", src, Split(rd.line).args, r)>> \o
                 (IF r = "ok" THEN <<Reply(250)>> ELSE <<>>),
        raised |-> r # "ok"]

\* The outcomes of provider.rename_file: normalize_path raises on None and on ''
RenameOutcomes(rd, src) ==
  IF rd.raised \/ ~HasSpace(rd.line) \/ ~StartsWith(rd.line, vRNTO) THEN {"raise"}
  ELSE ProviderOutcomes(src, {"ok"}) \cap ProviderOutcomes(Split(rd.line).args, {"ok"})

\* The rest of the RNFR handler, from the read of line 204; then the except clause
\* if it raised, and back to line 148
RenameTarget ==
  /\ pc = "rename_target"
  /\ \E kind \in InputKinds : \E text \in Lines :
       /\ CanSend(kind)
       /\ kind # "line" => text = vNOOP
       /\ LET rd == read_till_crlf(kind, text)
          IN \E r \in RenameOutcomes(rd, from_name) :
               LET body == rename_step(rd, from_name, r)
               IN /\ line' = IF rd.raised THEN line ELSE rd.line
                  /\ events' = <<Read(204, kind)>> \o
                                 (IF body.raised THEN Except(body.ev) ELSE body.ev)
       /\ peer_closed' = (peer_closed \/ kind \in {"eof", "truncated"})
  /\ pc' = "awaiting"
  /\ UNCHANGED <<passiveVars, from_name, client, working_dir, auxVars>>

Next ==
  \/ Greeting
  \/ ReadFails
  \/ ReadEmpty
  \/ CWD \/ DELE \/ MKD \/ RMD \/ NOOP \/ OPTS \/ QUIT \/ SYST \/ USER \/ Unknown
  \/ PWD \/ SIZE \/ TYPE
  \/ LIST \/ RETR \/ STOR \/ PASV
  \/ RNFR \/ RenameTarget

Spec == Init /\ [][Next]_vars

----------------------------------------------------------------------------
\* Vocabulary of the properties

----------------------------------------------------------------------------
\* Server.read_till_crlf, byte by byte

\* max_buf_len = 1000
max_buf_len == 1000

\* The longest tail of a stream after its leading "a" bytes
MaxTail == 3

CR == "\r"

LF == "\n"

\* a byte that is not 7-bit ASCII
b80 == "x80"

TailBytes == {"a", CR, LF, b80}

\* The streams read: 0..2 bytes "a" or a number of them around the ceiling, then a tail
ReaderFills == (0..2) \cup ((max_buf_len - 2)..(max_buf_len + 2))

Tails == UNION {[1..n -> TailBytes] : n \in 0..MaxTail}

\* len(buf)
BufLen(b) == b.fill + Len(b.rest)

\* buf += char
BufAppend(b, c) ==
  IF c = "a" /\ b.rest = <<>> THEN [b EXCEPT !.fill = @ + 1]
  ELSE [b EXCEPT !.rest = Append(@, c)]

\* buf[:-2]
DropLast2(b) ==
  IF Len(b.rest) >= 2 THEN [b EXCEPT !.rest = SubSeq(@, 1, Len(@) - 2)]
  ELSE LET left == b.fill - (2 - Len(b.rest))
       IN [fill |-> IF left > 0 THEN left ELSE 0, rest |-> <<>>]

\* return str(buf[:-2], 'ascii'): the decoding raises on a byte above 127
ReaderReturn(rd) ==
  LET l == DropLast2(rd.buf)
  IN IF \A i \in 1..Len(l.rest) : l.rest[i] # b80
     THEN [rd EXCEPT !.pc = "returned", !.result = l]
     ELSE [rd EXCEPT !.pc = "raised", !.why = "undecodable"]

\* client.recv(1): the next byte of the stream, or b'' once the peer has closed
Recv1(rd) ==
  IF rd.fill > 0 THEN <<"a">>
  ELSE IF rd.tail # <<>> THEN <<Head(rd.tail)>>
  ELSE <<>>

\* One iteration of the while loop of read_till_crlf (lines 67-83), and the return
\* of line 85 when the iteration breaks
read_till_crlf_iter(rd) ==
  LET char == Recv1(rd)
      rd1 == [rd EXCEPT !.fill = IF @ > 0 THEN @ - 1 ELSE 0,
                        !.tail = IF rd.fill = 0 /\ @ # <<>> THEN Tail(@) ELSE @,
                        !.got = @ + Len(char)]
  IN IF char = <<>> /\ BufLen(rd.buf) > 0
     THEN [rd1 EXCEPT !.pc = "raised", !.why = "truncated"]
     ELSE IF char = <<>> THEN ReaderReturn(rd1)
     ELSE IF BufLen(rd.buf) > max_buf_len
     THEN [rd1 EXCEPT !.pc = "raised", !.why = "oversize"]
     ELSE LET b == BufAppend(rd.buf, char[1])
          IN IF char[1] = CR THEN [rd1 EXCEPT !.buf = b, !.is_prv_cr = TRUE]
             ELSE IF rd.is_prv_cr /\ char[1] = LF THEN ReaderReturn([rd1 EXCEPT !.buf = b])
             ELSE [rd1 EXCEPT !.buf = b, !.is_prv_cr = FALSE]

ReaderRecv ==
  /\ reader.pc = "recv"
  /\ reader' = read_till_crlf_iter(reader)
  /\ UNCHANGED <<sessionVars, serveVars, store, pasv>>

\* line = Server.read_till_crlf(client); if not line: break
ReaderDeliver ==
  /\ reader.pc = "returned"
  /\ reader' = [reader EXCEPT !.pc = IF BufLen(reader.result) = 0 THEN "ended" ELSE "dispatch"]
  /\ UNCHANGED <<sessionVars, serveVars, store, pasv>>

InitReader ==
  /\ SessionInit
  /\ ServeInit
  /\ \E f \in ReaderFills : \E t \in Tails : reader = ReaderStart(f, t)
  /\ store = StoreStart(<<>>)
  /\ pasv = PasvStart(0)

NextReader == ReaderRecv \/ ReaderDeliver

SpecReader == InitReader /\ [][NextReader]_vars

----------------------------------------------------------------------------
\* Server.serve, Server._serve and main: the accept loop, one thread per client

\* The command lines counted per session
MaxAnswered == 2

\* except: traceback.print_exc(); self.crucial_error = True
ServeFails(call) ==
  /\ serve_pc' = "stopped"
  /\ crucial_error' = TRUE
  /\ serve_failure' = call

\* control_connection = socket.socket(); bind(self.bind_addr); listen()
ServeStart ==
  /\ process = "running"
  /\ serve_pc = "start"
  /\ \E o \in {"ok", "bind", "listen"} :
       IF o = "ok"
       THEN serve_pc' = "accepting" /\ UNCHANGED <<crucial_error, serve_failure>>
       ELSE ServeFails(o)
  /\ UNCHANGED <<client_id, sessions, answered, process, sessionVars, reader, store, pasv>>

\* One pass of the while loop of _serve: accept, getpeername, provider_factory(), and
\* the start of the client's thread, which sends the greeting and awaits a command
ServeAccept ==
  /\ process = "running"
  /\ serve_pc = "accepting"
  /\ client_id < MaxClients
  /\ client_id' = client_id + 1
  /\ \E o \in {"ok", "accept", "getpeername", "provider_factory", "thread_start"} :
       IF o = "ok"
       THEN /\ sessions' = [sessions EXCEPT ![client_id'] = "awaiting"]
            /\ UNCHANGED <<serve_pc, crucial_error, serve_failure>>
       ELSE ServeFails(o) /\ UNCHANGED sessions
  /\ UNCHANGED <<answered, process, sessionVars, reader, store, pasv>>

\* Session i reads a command line and answers it (one pass of lines 147-242)
SessionCommand(i) ==
  /\ process = "running"
  /\ sessions[i] = "awaiting"
  /\ answered' = [answered EXCEPT ![i] = IF @ < MaxAnswered THEN @ + 1 ELSE @]
  /\ UNCHANGED <<crucial_error, serve_pc, serve_failure, client_id, sessions, process,
                 sessionVars, reader, store, pasv>>

\* a session's failure written into the server's flag
SessionCrash_Escalates(i) ==
  /\ process = "running"
  /\ sessions[i] = "awaiting"
  /\ sessions' = [sessions EXCEPT ![i] = "crashed"]
  /\ crucial_error' = TRUE
  /\ UNCHANGED <<serve_pc, serve_failure, client_id, answered, process,
                 sessionVars, reader, store, pasv>>

\* The read of line 148 raises in session i: the exception leaves command_loop and
\* ends the thread of that client
SessionCrash(i) ==
  /\ process = "running"
  /\ sessions[i] = "awaiting"
  /\ sessions' = [sessions EXCEPT ![i] = "crashed"]
  /\ UNCHANGED <<crucial_error, serve_pc, serve_failure, client_id, answered, process,
                 sessionVars, reader, store, pasv>>

\* The peer of session i closes: the loop breaks and command_loop returns
SessionExit(i) ==
  /\ process = "running"
  /\ sessions[i] = "awaiting"
  /\ sessions' = [sessions EXCEPT ![i] = "exited"]
  /\ UNCHANGED <<crucial_error, serve_pc, serve_failure, client_id, answered, process,
                 sessionVars, reader, store, pasv>>

\* main: if should_exit or server.crucial_error: sys.exit(0); the daemon threads end
MainExit ==
  /\ process = "running"
  /\ \E should_exit \in BOOLEAN : should_exit \/ crucial_error
  /\ process' = "exited"
  /\ serve_pc' = "stopped"
  /\ sessions' = [i \in Clients |-> IF sessions[i] = "awaiting" THEN "killed" ELSE sessions[i]]
  /\ UNCHANGED <<crucial_error, serve_failure, client_id, answered,
                 sessionVars, reader, store, pasv>>

InitServe ==
  /\ SessionInit
  /\ ServeInit
  /\ reader = ReaderStart(0, <<>>)
  /\ store = StoreStart(<<>>)
  /\ pasv = PasvStart(0)

NextServe ==
  \/ ServeStart
  \/ ServeAccept
  \/ \E i \in Clients : SessionCommand(i)
  \/ \E i \in Clients : SessionCrash(i)
  \/ \E i \in Clients : SessionExit(i)
  \/ MainExit

SpecServe == InitServe /\ [][NextServe]_vars

----------------------------------------------------------------------------
\* STOR of a payload and RETR of the same name, with FileSystemProvider: passive_read
\* with save_file pulling chunks through read_n_till_close, then passive_reply with
\* get_file

\* chunk_size of save_file (50 MB in the code), scaled down
chunk_size == 2

\* The longest payload stored
MaxPayload == 4

Bytes == {0, 255}

Payloads == UNION {[1..n -> Bytes] : n \in 0..MaxPayload}

\* read_n_till_close keeping only the bytes of the last recv
read_n_overwrite(buf, char) == char

\* buf += char
read_n_append(buf, char) == buf \o char

\* One iteration of the loop of read_n_till_close(passive_client, chunk_size):
\* recv(n - len(buf)) gives b'' when n - len(buf) is 0 or the peer has sent everything
\* and closed, and otherwise any non-empty prefix of what is left, at most that long
StoreRecv ==
  /\ store.pc = "recv"
  /\ LET want == chunk_size - Len(store.buf)
         most == IF want < Len(store.wire) THEN want ELSE Len(store.wire)
     IN IF most = 0
        THEN store' = [store EXCEPT !.pc = "chunk", !.data = store.buf]
        ELSE \E k \in 1..most :
               store' = [store EXCEPT
                           !.buf = read_n_append(@, SubSeq(store.wire, 1, k)),
                           !.wire = SubSeq(@, k + 1, Len(@))]
  /\ UNCHANGED <<sessionVars, serveVars, reader, pasv>>

\* save_file, after data = get_file_chunk(chunk_size): write the chunk and ask for the
\* next one, or close the file on an empty chunk (passive_read then closes the data
\* connection and replies 226)
StoreWrite ==
  /\ store.pc = "chunk"
  /\ store' = IF store.data # <<>>
              THEN [store EXCEPT !.file = @ \o store.data, !.chunks = @ + 1,
                                 !.buf = <<>>, !.data = <<>>, !.pc = "recv"]
              ELSE [store EXCEPT !.buf = <<>>, !.pc = "stored"]
  /\ UNCHANGED <<sessionVars, serveVars, reader, pasv>>

\* RETR of the stored name: d = get_file(f), the bytes of the file; passive_client.send(d)
\* on the blocking data socket, taken to transmit all of d
StoreRetr ==
  /\ store.pc = "stored"
  /\ store' = [store EXCEPT !.sent = store.file, !.pc = "sent"]
  /\ UNCHANGED <<sessionVars, serveVars, reader, pasv>>

InitStore ==
  /\ SessionInit
  /\ ServeInit
  /\ reader = ReaderStart(0, <<>>)
  /\ \E payload \in Payloads : store = StoreStart(payload)
  /\ pasv = PasvStart(0)

NextStore == StoreRecv \/ StoreWrite \/ StoreRetr

SpecStore == InitStore /\ [][NextStore]_vars

----------------------------------------------------------------------------
\* The PASV handler from the listener's port to the accept (lines 185-191)

\* passive_server.getsockname()[1]: a 16-bit port number
Ports == 0..(2^16 - 1)

\* a shift by one bit too few
ShiftRight_short(p, n) == p \div 2^(n - 1)

\* p >> n
ShiftRight(p, n) == p \div 2^n

\* a & b, bit by bit
RECURSIVE BitAnd(_, _)
BitAnd(a, b) ==
  IF a = 0 \/ b = 0 THEN 0
  ELSE (a % 2) * (b % 2) + 2 * BitAnd(a \div 2, b \div 2)

\* f'{passive_server_port>>8},{passive_server_port&0xff}'; reply(227, ...)
PasvReply ==
  /\ pasv.pc = "listening"
  /\ pasv' = [pasv EXCEPT !.hi = ShiftRight(pasv.port, 8), !.lo = BitAnd(pasv.port, 255),
                          !.replied = TRUE, !.pc = "replied"]
  /\ UNCHANGED <<sessionVars, serveVars, reader, store>>

\* passive_client = passive_server.accept()[0], with the 1 second timeout
PasvAccept ==
  /\ pasv.pc = "replied"
  /\ \E o \in {"accepted", "raised"} :
       pasv' = [pasv EXCEPT !.accept_called = TRUE, !.pc = o]
  /\ UNCHANGED <<sessionVars, serveVars, reader, store>>

InitPasv ==
  /\ SessionInit
  /\ ServeInit
  /\ reader = ReaderStart(0, <<>>)
  /\ store = StoreStart(<<>>)
  /\ \E port \in Ports : pasv = PasvStart(port)

NextPasv == PasvReply \/ PasvAccept

SpecPasv == InitPasv /\ [][NextPasv]_vars


DataVerbs == {vLIST, vRETR, vSTOR}

\* the pass recorded in evs handled a line read at line 148
IsDispatch(evs) == evs # <<>> /\ evs[1] = Read(148, "line")

\* the reply code was sent during the pass
Sent(evs, code) == \E i \in 1..Len(evs) : evs[i] = Reply(code)

\* the pass called the provider's list, read or write operation, or sent data
NoData(evs) == ~\E i \in 1..Len(evs) : evs[i].k \in {"listdir", "get_file", "save_file", "send"}

\* get_size reported a regular file during the pass
SizeSaidFile(evs) == \E i \in 1..Len(evs) : evs[i].k = "get_size" /\ evs[i].r = "file"

\* LIST, STOR, or RETR of a regular file
DataCmdOnFile(ln, evs) ==
  \/ Split(ln).cmd \in {vLIST, vSTOR}
  \/ Split(ln).cmd = vRETR /\ SizeSaidFile(evs)

----------------------------------------------------------------------------
\* C1: an exception raised while a handler runs is caught for that command: it is
\* followed by exactly the 500 reply, after which the session is back at the read
\* of the next command line; no handler failure ends the session.
C1_HandlerFailureCaught ==
  \A i \in 1..Len(events) :
    events[i].k = "raise" =>
      /\ i = Len(events) - 1
      /\ events[Len(events)] = Reply(500)
      /\ pc = "awaiting"

\* a provider call of a handler raised and the session awaits the next line
C1_Witness ==
  /\ pc = "awaiting"
  /\ Has(events, "raise")
  /\ \E i \in 1..Len(events) : events[i].k = "del_file" /\ events[i].r = "raise"

\* C2: once 221 has been sent in answer to QUIT, no further command line is
\* dispatched and no further reply is sent on that control connection.
C2_TerminatedAfterQuit ==
  [][Sent(events, 221) => (Replies(events') = <<>> /\ ~IsDispatch(events'))]_vars

\* C3: every received command line is answered by exactly one reply line before the
\* next line is read, except that a data-bearing command may send 150 then 226.
C3_OneReplyPerLine ==
  (events # <<>> /\ events[1].k = "read" /\ events[1].r = "line") =>
    \/ Len(Replies(events)) = 1
    \/ Split(line).cmd \in DataVerbs /\ Replies(events) = <<150, 226>>

\* C4: the line read after an RNFR leads to a rename only if it is `RNTO <target>`
\* with the verb exactly RNTO: then rename(source, target) is called exactly once with
\* the RNFR argument as source (and 250 is the reply when it succeeds); any
\* other line calls no rename and is answered 500.
C4_RenameOnlyOnRNTO ==
  (events # <<>> /\ events[1] = Read(204, "line")) =>
    LET calls == {i \in 1..Len(events) : events[i].k = "rename_file"}
    IN IF HasSpace(line) /\ Split(line).cmd = vRNTO
       THEN \E i \in calls :
              /\ calls = {i}
              /\ events[i].x = from_name
              /\ events[i].y = Split(line).args
              /\ events[i].r = "ok" => Replies(events) = <<250>>
       ELSE calls = {} /\ Replies(events) = <<500>>

\* C5 as stated: after a transfer completed with 226, every further LIST, RETR or
\* STOR before a new PASV accepted a connection is answered 425 and transfers
\* nothing; no data connection serves two completed transfers.
C5_SingleUseAnyDataCommand ==
  /\ [][(consumed /\ IsDispatch(events') /\ Split(line').cmd \in DataVerbs)
          => (Replies(events') = <<425>> /\ NoData(events'))]_vars
  /\ [](\A c \in PasvIds : transfers[c] <= 1)

\* C5 as amended: after a transfer completed with 226, every further LIST or STOR, and
\* every further RETR of a path the provider reports as a regular file, before a new
\* PASV accepted a connection is answered 425 and transfers nothing; no data
\* connection serves two completed transfers.
C5_SingleUse ==
  /\ [][(consumed /\ IsDispatch(events') /\ DataCmdOnFile(line', events'))
          => (Replies(events') = <<425>> /\ NoData(events'))]_vars
  /\ [](\A c \in PasvIds : transfers[c] <= 1)

\* a transfer has completed and a later RETR of a regular file was answered 425
C5_Witness ==
  /\ consumed
  /\ \E c \in PasvIds : transfers[c] = 1
  /\ IsDispatch(events)
  /\ Split(line).cmd = vRETR
  /\ SizeSaidFile(events)
  /\ Replies(events) = <<425>>

\* C6: LIST, STOR or RETR of a regular file issued while the session has no passive
\* channel is answered exactly 425, with no 150 or 226, without any call of the
\* provider's list, read or write operation, and the session goes on to the next
\* command.
C6_NoChannel425 ==
  [][(pc = "awaiting" /\ passive_client = 0 /\ IsDispatch(events')
        /\ DataCmdOnFile(line', events'))
       => /\ Replies(events') = <<425>>
          /\ NoData(events')
          /\ passive_client' = 0
          /\ pc' = "awaiting"]_vars

\* a STOR without a passive channel was answered 425
C6_Witness ==
  /\ IsDispatch(events)
  /\ Split(line).cmd = vSTOR
  /\ passive_client = 0
  /\ events[2] = Passive(0)
  /\ Replies(events) = <<425>>

\* C7: when the session's execution context has exited, by whatever path, its passive
\* data channel is not open.
C7_ChannelClosedAtExit ==
  pc \in {"exited", "crashed"} =>
    (passive_client = 0 \/ data_sock[passive_client] # "open")

\* C8: at most one accepted data connection of the session is open at any time, each
\* is closed at most once, and an accepted connection that is no longer the session's
\* passive channel has been closed.
C8_AtMostOneOpenChannel ==
  /\ Cardinality({c \in PasvIds : data_sock[c] = "open"}) <= 1
  /\ \A c \in PasvIds : closes[c] <= 1
  /\ \A c \in PasvIds : data_sock[c] = "open" => c = passive_client

\* C9: no PASV listener is open once its PASV command has finished.
C9_NoListenerLeft ==
  \A c \in PasvIds : listener[c] # "listening"

\* C10: a data-bearing command that replied 150 has closed the channel it found and
\* cleared it from the session by the time its final reply is sent.
C10_ChannelReleasedAfter150 ==
  (IsDispatch(events) /\ Split(line).cmd \in DataVerbs /\ Sent(events, 150)) =>
    /\ passive_client = 0
    /\ \A i \in 1..Len(events) :
         events[i].k = "passive" => data_sock[events[i].n] = "closed"

\* The verbs of the dispatch table as the specification lists it (upper case only)
TableVerbs == KnownVerbs \ {vnoop, vopts}

\* C17 as stated: a line whose verb is none of the (upper-case) verbs of the dispatch
\* table, lower-case spellings such as noop, opts and pwd included, is answered with
\* exactly one 501, with no provider call and no change to the passive channel.
C17_NotInTable501 ==
  [][(IsDispatch(events') /\ Split(line').cmd \notin TableVerbs)
       => /\ events' = <<Read(148, "line"), Reply(501)>>
          /\ UNCHANGED passiveVars]_vars

\* C17 as amended: a line whose verb is none of the verbs the dispatch chain compares
\* with (which include the lower-case noop and opts) is answered with exactly one 501,
\* with no provider call and no change to the passive channel.
C17_UnknownVerb501 ==
  [][(IsDispatch(events') /\ Split(line').cmd \notin KnownVerbs)
       => /\ events' = <<Read(148, "line"), Reply(501)>>
          /\ UNCHANGED passiveVars]_vars

\* the lower-case pwd was answered 501 while a passive channel is open
C17_Witness ==
  /\ IsDispatch(events)
  /\ line = <<"p", "w", "d">>
  /\ Replies(events) = <<501>>
  /\ passive_client # 0

\* the positions in evs of the events of the given kinds
At(evs, kinds) == {i \in 1..Len(evs) : evs[i].k \in kinds}

\* C20: in a data-bearing command that ends with 226, the 150 reply comes before any
\* provider transfer call or byte on the data connection, all of these come before the
\* close of the data connection, and the 226 reply is the last step, after the close and
\* the clearing of the channel.
C20_TransferOrder ==
  (IsDispatch(events) /\ Split(line).cmd \in DataVerbs /\ Sent(events, 226)) =>
    LET n == Len(events)
        data == At(events, {"listdir", "get_file", "save_file", "send"})
    IN /\ events[n] = Reply(226)
       /\ events[n - 1] = Clear
       /\ events[n - 2].k = "close"
       /\ data_sock[events[n - 2].n] = "closed"
       /\ passive_client = 0
       /\ data # {}
       /\ \A i \in data : i < n - 2
       /\ \E a \in 1..n : events[a] = Reply(150) /\ \A i \in data : a < i
       /\ At(events, {"reply"}) = {n} \cup {a \in 1..n : events[a] = Reply(150)}

\* a RETR sent the file and ended with 226
C20_Witness ==
  /\ IsDispatch(events)
  /\ Split(line).cmd = vRETR
  /\ Sent(events, 226)
  /\ \E i \in 1..Len(events) : events[i].k = "send" /\ events[i].r = "ok"

\* C11: a command line longer than the ceiling, arriving wherever a command is awaited,
\* is answered with one 500 reply and the session goes on to read the next line.
C11_OversizeAnswered500 ==
  (Has(events, "read") /\ events[1].r = "oversize")
    => (Replies(events) = <<500>> /\ pc = "awaiting")

\* C19: PWD is idempotent and free of side effects: every PWD reports the provider's
\* working directory and leaves it and the passive channel as they were; two PWD in a
\* row report the same string; and the working directory changes in no pass other
\* than a CWD, so two PWD with no CWD between them report the same string.
C19_PwdIdempotent ==
  [][/\ (IsDispatch(events') /\ Split(line').cmd \in {vPWD, vXPWD})
          => /\ events' = <<Read(148, "line"),
                            Call("get_work_dir", <<>>, working_dir, "ok"), Reply(257)>>
             /\ working_dir' = working_dir
             /\ UNCHANGED passiveVars
             /\ (IsDispatch(events) /\ Split(line).cmd \in {vPWD, vXPWD})
                  => events'[2].y = events[2].y
     /\ working_dir' # working_dir
          => (IsDispatch(events') /\ Split(line').cmd = vCWD /\ Sent(events', 250))]_vars

\* an XPWD after a CWD / reported the changed directory while a passive channel is open
C19_Witness ==
  /\ IsDispatch(events)
  /\ line = vXPWD
  /\ working_dir = <<"/", "/">>
  /\ events[2].y = working_dir
  /\ Sent(events, 257)
  /\ passive_client # 0

\* C12: the line reader gives the empty result only when the peer closed before any
\* byte of the line arrived; no bytes received (CRLF alone included) give the empty
\* result or end the session.
C12_EmptyOnlyOnCleanClose ==
  (reader.pc \in {"returned", "ended"} /\ BufLen(reader.result) = 0) => reader.got = 0

\* C13: a line of n content bytes followed by CRLF is accepted, and its content
\* returned without the CRLF, exactly when n <= 1000; it fails exactly when n > 1000.
C13_Ceiling1000 ==
  (reader.in_tail = <<CR, LF>> /\ reader.pc # "recv") =>
    IF reader.in_fill <= max_buf_len
    THEN /\ reader.pc \in {"returned", "ended", "dispatch"}
         /\ reader.result = [fill |-> reader.in_fill, rest |-> <<>>]
    ELSE reader.pc = "raised"

\* C14: a failure that ends one session's thread changes neither the supervisor, nor
\* the crucial-error flag, nor the process, nor any other session; afterwards the
\* supervisor can still accept and every other session can still have a command read
\* and answered, whatever the interleaving.
C14_SessionFailureLocal ==
  /\ [][\A i \in Clients :
          (sessions[i] = "awaiting" /\ sessions'[i] = "crashed")
            => /\ UNCHANGED <<crucial_error, serve_pc, serve_failure, client_id, process>>
               /\ \A j \in Clients \ {i} :
                    sessions'[j] = sessions[j] /\ answered'[j] = answered[j]]_vars
  /\ []((process = "running" /\ \E i \in Clients : sessions[i] = "crashed")
          => /\ \A j \in Clients : sessions[j] = "awaiting" => ENABLED SessionCommand(j)
             /\ (serve_pc = "accepting" /\ client_id < MaxClients) => ENABLED ServeAccept)

\* one session has crashed, another has since had a command answered, the supervisor
\* is accepting and the flag is false
C14_Witness ==
  /\ process = "running"
  /\ serve_pc = "accepting"
  /\ ~crucial_error
  /\ sessions[1] = "crashed"
  /\ sessions[2] = "awaiting"
  /\ answered[1] = 0
  /\ answered[2] > 0

\* C15: crucial_error is true, and the accept loop stopped by a failure, only when the
\* control listener failed to bind, listen or accept; no failure tied to one incoming
\* client sets the flag.
C15_OnlyListenerFailureFatal ==
  crucial_error => serve_failure \in {"bind", "listen", "accept"}

\* C16: for every payload, the empty one and those longer than a chunk included, and
\* every segmentation of its delivery, STOR followed by RETR of the same name sends
\* exactly the payload: while storing, the bytes written, buffered and still to come
\* are the payload in order; the stored file is the payload; the bytes sent are the
\* payload.
C16_RoundTrip ==
  /\ store.pc \in {"recv", "chunk"} => store.file \o store.buf \o store.wire = store.payload
  /\ store.pc = "chunk" => store.data = store.buf
  /\ store.pc \in {"stored", "sent"} => store.file = store.payload
  /\ store.pc = "sent" => store.sent = store.payload

\* a payload longer than a chunk, with both byte values, was stored in several chunks
\* and sent back
C16_Witness ==
  /\ store.pc = "sent"
  /\ Len(store.payload) > chunk_size
  /\ store.chunks >= 2
  /\ \E i, j \in 1..Len(store.payload) : store.payload[i] # store.payload[j]
  /\ store.sent = store.payload

\* C18: for every port p in 0..65535 the 227 reply carries hi = p >> 8 and lo = p & 0xFF,
\* both within 0..255 and with hi*256 + lo = p, and accept is called only after the
\* 227 reply was sent.
C18_PortEncoding ==
  /\ pasv.replied =>
       /\ pasv.hi \in 0..255
       /\ pasv.lo \in 0..255
       /\ pasv.hi * 256 + pasv.lo = pasv.port
       /\ pasv.hi = pasv.port \div 256
       /\ pasv.lo = pasv.port % 256
  /\ pasv.accept_called => pasv.replied

\* port 50000 was announced as 195,80 and a data connection was then accepted
C18_Witness ==
  /\ pasv.pc = "accepted"
  /\ pasv.port = 50000
  /\ pasv.hi = 195
  /\ pasv.lo = 80

\* get_size reported not-a-file during the pass
SizeSaidNotFile(evs) == \E i \in 1..Len(evs) : evs[i].k = "get_size" /\ evs[i].r = "notfile"

\* C21: a RETR of a path that get_size reports as not a file is answered exactly 550,
\* with or without a passive channel (never 425), with no 150 or 226, no get_file call
\* and no byte on the data connection, and it leaves the passive channel as it was.
C21_RetrNotFile550 ==
  [][(IsDispatch(events') /\ Split(line').cmd = vRETR /\ pc = "awaiting")
       => /\ (\E r \in {"file", "notfile", "raise"} :
                 events'[2] = Call("get_size", Split(line').args, <<>>, r))
          /\ SizeSaidNotFile(events')
               => /\ events' = <<Read(148, "line"),
                                 Call("get_size", Split(line').args, <<>>, "notfile"),
                                 Reply(550)>>
                  /\ UNCHANGED passiveVars]_vars

\* a RETR of a non-file was answered 550 while an accepted data connection is open
C21_Witness ==
  /\ IsDispatch(events)
  /\ Split(line).cmd = vRETR
  /\ SizeSaidNotFile(events)
  /\ Replies(events) = <<550>>
  /\ passive_client # 0
  /\ data_sock[passive_client] = "open"

\* C22: the directory PWD reports changes only through a CWD answered 250; after a
\* CWD answered 250 for an absolute path (the root / included) PWD reports that path;
\* after a CWD answered 550 it reports what it reported before.
C22_CwdSetsRequestedDir ==
  [][/\ (IsDispatch(events') /\ Split(line').cmd = vCWD)
          => /\ (Sent(events', 250) /\ Split(line').args[1] = "/")
                  => get_work_dir(working_dir') = Split(line').args
             /\ Sent(events', 550) => working_dir' = working_dir
     /\ working_dir' # working_dir
          => (IsDispatch(events') /\ Split(line').cmd = vCWD /\ Sent(events', 250))]_vars

\* provider.rename_file was called during the pass and returned
Renamed(evs) == \E i \in 1..Len(evs) : evs[i].k = "rename_file" /\ evs[i].r = "ok"

\* C23: the line read right after an RNFR is consumed by the rename step whatever its
\* verb: the step makes no provider call but rename_file and changes neither the
\* passive channel, nor the control socket, nor the working directory; a line whose
\* verb is not RNTO (QUIT, PASV, DELE, STOR, ...) is answered exactly 500 and renames
\* nothing; and rename_file is called only in that step, on a line with the verb RNTO,
\* with the source of the RNFR just before it.
C23_LineAfterRNFRConsumed ==
  [][/\ pc = "rename_target"
          => /\ pc' = "awaiting"
             /\ events'[1].k = "read" /\ events'[1].n = 204
             /\ UNCHANGED <<passiveVars, client, working_dir, from_name>>
             /\ \A i \in 2..Len(events') : events'[i].k \in {"rename_file", "raise", "reply"}
             /\ (events'[1].r # "line" \/ Split(line').cmd # vRNTO)
                  => (~Renamed(events') /\ Replies(events') = <<500>>)
     /\ Renamed(events')
          => /\ pc = "rename_target"
             /\ events'[1] = Read(204, "line")
             /\ Split(line').cmd = vRNTO
             /\ \A i \in 1..Len(events') :
                  events'[i].k = "rename_file" => events'[i].x = from_name]_vars

\* C24: whenever the command loop has been left and the clean-up has run, the server
\* has closed the session's control socket.
C24_ControlSocketClosedAtExit ==
  pc = "exited" => client = "closed"
====
